---- MODULE Spec2Model ----
(***************************************************************************)
(* A model of the persistence layer of betr_spreads:                       *)
(*   backend/models/base.py        Base, BasesqlModel (table-name          *)
(*                                 derivation, get_or_create, save, get,   *)
(*                                 validate_table_exists, validate_data)   *)
(*   backend/database/db_pgsql.py  create_table, drop_table, get_table     *)
(* The SQL engine, the ORM session and the validation library are the      *)
(* environment: each call into them is modelled by the outcome it has for  *)
(* the arguments the code passes.                                          *)
(***************************************************************************)
EXTENDS Integers, Sequences, FiniteSets

\* ------------------------------------------------------------------------
\* Bounds of the model
\* ------------------------------------------------------------------------
MaxLen == 3      \* longest type name
MaxId == 2       \* largest primary key
MaxClock == 1    \* latest reading of time.time()

\* ------------------------------------------------------------------------
\* Table-name derivation (base.py, __tablename__)
\* ------------------------------------------------------------------------
\* A name is a sequence of characters; the alphabet has one member or more
\* of each class the regular expression tells apart.
LowerChars == {"a"}
UpperChars == {"A"}
DigitChars == {"1"}
NameChars == LowerChars \cup UpperChars \cup DigitChars \cup {"_"}

\* str.lower() on one character
ToLower(c) == IF c = "A" THEN "a" ELSE c

\* str.lower()
Lower(s) == [i \in 1..Len(s) |-> ToLower(s[i])]

\* re.sub(r'([a-z\d])([A-Z])', r'\1_\2', s): the leftmost match is replaced
\* and the scan goes on after the two characters it consumed.
RECURSIVE SubWrongGroup(_)
SubWrongGroup(s) ==
    IF Len(s) < 2 THEN s
    ELSE IF s[1] \in (LowerChars \cup DigitChars) /\ s[2] \in UpperChars
         THEN <<s[1], "_">> \o SubWrongGroup(SubSeq(s, 3, Len(s)))
         ELSE <<s[1]>> \o SubWrongGroup(Tail(s))

RECURSIVE Sub(_)
Sub(s) ==
    IF Len(s) < 2 THEN s
    ELSE IF s[1] \in (LowerChars \cup DigitChars) /\ s[2] \in UpperChars
         THEN <<s[1], "_", s[2]>> \o Sub(SubSeq(s, 3, Len(s)))
         ELSE <<s[1]>> \o Sub(Tail(s))

\* the derivation without its .lower()
DeriveNoLower(s) == Sub(s)

\* cls.__tablename__
Derive(s) == Lower(Sub(s))

\* Python class names: identifiers, so never empty and never starting with
\* a digit.
RECURSIVE SeqsUpTo(_)
SeqsUpTo(n) ==
    IF n = 0 THEN {<<>>}
    ELSE LET shorter == SeqsUpTo(n - 1)
         IN shorter \cup {Append(s, c) : s \in {t \in shorter : Len(t) = n - 1}, c \in NameChars}

TypeNames == {s \in SeqsUpTo(MaxLen) : Len(s) >= 1 /\ s[1] \notin DigitChars}

\* ------------------------------------------------------------------------
\* The database, the callers and the declared entity types
\* ------------------------------------------------------------------------
Callers == {"c1", "c2"}          \* one ORM session each
MainCaller == "c1"
Names == {"x", "y"}              \* values of the column the criteria name
TableNames == {"widget", "gadget"}
EntityTable == "widget"          \* the entity type's own table
Slots == {"first", "second"}     \* entity types of one deployment
NoId == 0                        \* id = None: not assigned yet
Ids == 1..MaxId
Frames == {<<>>, <<TRUE>>, <<FALSE>>, <<TRUE, TRUE>>, <<TRUE, FALSE>>,
           <<FALSE, TRUE>>}      \* data frames: per row, whether it is valid

VARIABLES
    tables,   \* the tables the database holds
    unique,   \* whether EntityTable has a uniqueness constraint on name
    rows,     \* the committed rows of EntityTable: id, name and the two
              \* timestamps (the soft-delete and audit columns are left out)
    clock,    \* time.time()
    pc,       \* per caller: "idle", or "insert" inside get_or_create
    crit,     \* per caller: the criteria of the get_or_create under way
    ret,      \* per caller: what its last completed call gave back
    models    \* per slot: a declared entity type and its table name

vars == <<tables, unique, rows, clock, pc, crit, ret, models>>
dbVars == <<tables, unique, rows, clock, pc, crit, ret>>

NoRet ==
    [op |-> "none", arg |-> "-", outcome |-> "none", exc |-> "-",
     flag |-> FALSE, id |-> NoId, given |-> NoId, persistent |-> FALSE,
     repeat |-> FALSE, df |-> <<>>]

\* a call that returned; flag is the boolean of the value, id the entity's id
Returned(op, arg, flag, id) ==
    [NoRet EXCEPT !.op = op, !.arg = arg, !.outcome = "returned",
                  !.flag = flag, !.id = id]

\* a call that let an exception through to its caller
Raised(op, arg, exc) ==
    [NoRet EXCEPT !.op = op, !.arg = arg, !.outcome = "raised", !.exc = exc]

NoModel == [name |-> <<>>, table |-> <<>>]

Init ==
    /\ tables = {EntityTable}
    /\ unique \in BOOLEAN
    /\ rows = {}
    /\ clock = 0
    /\ pc = [p \in Callers |-> "idle"]
    /\ crit = [p \in Callers |-> "-"]
    /\ ret = [p \in Callers |-> NoRet]
    /\ models = [s \in Slots |-> NoModel]

\* ------------------------------------------------------------------------
\* What the session and the engine do for the calls the code makes
\* ------------------------------------------------------------------------
\* session.query(cls).filter_by(**kwargs): the rows equal to the criteria
Matching(c) == {r \in rows : r.name = c}

RowIds == {r.id : r \in rows}
RowOf(i) == CHOOSE r \in rows : r.id = i

\* cls(**kwargs): created_at and updated_at each come from a default factory
\* of their own, two readings of time.time(): t1 and then t2 >= t1.
NewEntity(i, c, t1, t2) ==
    [id |-> i, name |-> c, created_at |-> t1, updated_at |-> t2]

\* the readings of the clock a second time.time() can give
LaterReadings == {t \in {clock, clock + 1} : t <= MaxClock}

\* the ids the database may assign to a row inserted with id = None
FreshIds == Ids \ RowIds

\* the INSERT violates the primary key or the uniqueness constraint
InsertConflictsUnchecked(i, c) == FALSE

InsertConflicts(i, c) ==
    \/ i # NoId /\ i \in RowIds
    \/ unique /\ Matching(c) # {}

\* the UPDATE of row i to name c violates the uniqueness constraint
UpdateConflicts(i, c) == unique /\ \E r \in rows : r.id # i /\ r.name = c

\* session.add(instance); session.commit() for an instance the session has
\* not seen: one INSERT, committed, or the engine's error and nothing stored.
AddAndCommit(p, op, c, i, rep) ==
    IF EntityTable \notin tables
    THEN /\ ret' = [ret EXCEPT ![p] =
                     [Raised(op, c, "ProgrammingError") EXCEPT !.given = i]]
         /\ UNCHANGED <<rows, clock>>
    ELSE IF InsertConflicts(i, c)
    THEN /\ ret' = [ret EXCEPT ![p] =
                     [Raised(op, c, "IntegrityError") EXCEPT !.given = i]]
         /\ UNCHANGED <<rows, clock>>
    ELSE \E t2 \in LaterReadings, j \in (IF i = NoId THEN FreshIds ELSE {i}) :
         /\ rows' = rows \cup {NewEntity(j, c, clock, t2)}
         /\ clock' = t2
         /\ ret' = [ret EXCEPT ![p] =
                     [Returned(op, c, TRUE, j) EXCEPT !.given = i, !.repeat = rep]]

\* ------------------------------------------------------------------------
\* BasesqlModel (base.py)
\* ------------------------------------------------------------------------
\* whether p's previous call was get_or_create on the same criteria and
\* created the row
Repeats(p, c) ==
    /\ ret[p].op = "get_or_create"
    /\ ret[p].arg = c
    /\ ret[p].outcome = "returned"
    /\ ret[p].flag

\* get_or_create, always inserting
GetOrCreateAlwaysInserts(p, c) ==
    /\ pc[p] = "idle"
    /\ AddAndCommit(p, "get_or_create", c, NoId, Repeats(p, c))
    /\ UNCHANGED <<tables, unique, pc, crit, models>>

\* get_or_create(session, name=c), the caller running alone
GetOrCreate(p, c) ==
    /\ pc[p] = "idle"
    /\ IF EntityTable \notin tables
       THEN /\ ret' = [ret EXCEPT ![p] = Raised("get_or_create", c, "ProgrammingError")]
            /\ UNCHANGED <<rows, clock>>
       ELSE IF Matching(c) # {}
       THEN \E r \in Matching(c) :
            /\ ret' = [ret EXCEPT ![p] =
                        [Returned("get_or_create", c, FALSE, r.id)
                            EXCEPT !.repeat = Repeats(p, c)]]
            /\ UNCHANGED <<rows, clock>>
       ELSE AddAndCommit(p, "get_or_create", c, NoId, Repeats(p, c))
    /\ UNCHANGED <<tables, unique, pc, crit, models>>

\* get_or_create, its query: callers interleave between the statements
GocQuery(p, c) ==
    /\ pc[p] = "idle"
    /\ IF EntityTable \notin tables
       THEN /\ ret' = [ret EXCEPT ![p] = Raised("get_or_create", c, "ProgrammingError")]
            /\ UNCHANGED <<pc, crit>>
       ELSE IF Matching(c) # {}
       THEN \E r \in Matching(c) :
            /\ ret' = [ret EXCEPT ![p] = Returned("get_or_create", c, FALSE, r.id)]
            /\ UNCHANGED <<pc, crit>>
       ELSE /\ pc' = [pc EXCEPT ![p] = "insert"]
            /\ crit' = [crit EXCEPT ![p] = c]
            /\ UNCHANGED ret
    /\ UNCHANGED <<tables, unique, rows, clock, models>>

\* get_or_create, its insert and commit
GocInsert(p) ==
    /\ pc[p] = "insert"
    /\ AddAndCommit(p, "get_or_create", crit[p], NoId, FALSE)
    /\ pc' = [pc EXCEPT ![p] = "idle"]
    /\ crit' = [crit EXCEPT ![p] = "-"]
    /\ UNCHANGED <<tables, unique, models>>

\* save(session) on an instance the caller has just constructed, with the
\* id left None or given by the caller
SaveNew(p, c, i) ==
    /\ pc[p] = "idle"
    /\ AddAndCommit(p, "save", c, i, FALSE)
    /\ UNCHANGED <<tables, unique, pc, crit, models>>

\* the row after the UPDATE the flush emits: the changed column alone
\* (updated_at has a default factory and no onupdate, so it is not touched)
UpdatedRow(r, c) == [r EXCEPT !.name = c]

\* save(session) on an instance loaded from row i, after the caller set its
\* name to c: an UPDATE when the value changed, and a commit
SaveLoaded(p, i, c) ==
    /\ pc[p] = "idle"
    /\ i \in RowIds
    /\ LET r == RowOf(i)
           back == [NoRet EXCEPT !.op = "save", !.arg = c, !.given = i,
                                 !.persistent = TRUE, !.id = i]
       IN IF r.name = c
          THEN /\ ret' = [ret EXCEPT ![p] = [back EXCEPT !.outcome = "returned"]]
               /\ UNCHANGED rows
          ELSE IF UpdateConflicts(i, c)
          THEN /\ ret' = [ret EXCEPT ![p] =
                           [back EXCEPT !.outcome = "raised", !.exc = "IntegrityError"]]
               /\ UNCHANGED rows
          ELSE /\ rows' = (rows \ {r}) \cup {UpdatedRow(r, c)}
               /\ ret' = [ret EXCEPT ![p] = [back EXCEPT !.outcome = "returned"]]
    /\ UNCHANGED <<tables, unique, clock, pc, crit, models>>

\* get that stores a row when it finds none
GetCreatesWhenMissing(p, c) ==
    /\ pc[p] = "idle"
    /\ IF EntityTable \in tables /\ Matching(c) = {}
       THEN AddAndCommit(p, "get", c, NoId, FALSE)
       ELSE /\ ret' = [ret EXCEPT ![p] = Returned("get", c, FALSE, NoId)]
            /\ UNCHANGED <<rows, clock>>
    /\ UNCHANGED <<tables, unique, pc, crit, models>>

\* get(session, name=c)
Get(p, c) ==
    /\ pc[p] = "idle"
    /\ IF EntityTable \notin tables
       THEN ret' = [ret EXCEPT ![p] = Raised("get", c, "ProgrammingError")]
       ELSE IF Matching(c) # {}
       THEN \E r \in Matching(c) :
            ret' = [ret EXCEPT ![p] = Returned("get", c, FALSE, r.id)]
       ELSE ret' = [ret EXCEPT ![p] = Returned("get", c, FALSE, NoId)]
    /\ UNCHANGED <<tables, unique, rows, clock, pc, crit, models>>

\* Dialect.has_table takes a Connection and refuses anything else
IsConnection(handle) == handle = "connection"

\* validate_table_exists(engine, t): engine.dialect.has_table(engine, t)
ValidateTableExists(p, t) ==
    /\ pc[p] = "idle"
    /\ IF IsConnection("engine")
       THEN ret' = [ret EXCEPT ![p] =
                     Returned("validate_table_exists", t, t \in tables, NoId)]
       ELSE ret' = [ret EXCEPT ![p] =
                     Raised("validate_table_exists", t, "ArgumentError")]
    /\ UNCHANGED <<tables, unique, rows, clock, pc, crit, models>>

\* The class statement of DataValidationModel declares a field __root__,
\* which the model metaclass refuses with a TypeError.
RootFieldRefused == TRUE

\* position of the first invalid row of a frame (0 when all are valid)
FirstInvalid(df) ==
    IF \A k \in 1..Len(df) : df[k] THEN 0
    ELSE CHOOSE k \in 1..Len(df) : ~df[k] /\ \A m \in 1..(k - 1) : df[m]

\* validate_data(df): the class statement stands before the try block
ValidateData(p, df) ==
    /\ pc[p] = "idle"
    /\ ret' = [ret EXCEPT ![p] =
         IF RootFieldRefused
         THEN [Raised("validate_data", "df", "TypeError") EXCEPT !.df = df]
         ELSE IF FirstInvalid(df) = 0
         THEN [Returned("validate_data", "df", TRUE, Len(df)) EXCEPT !.df = df]
         ELSE [Returned("validate_data", "df", FALSE, FirstInvalid(df))
                  EXCEPT !.exc = "ValidationError", !.df = df]]
    /\ UNCHANGED <<tables, unique, rows, clock, pc, crit, models>>

\* ------------------------------------------------------------------------
\* The gateway (db_pgsql.py)
\* ------------------------------------------------------------------------
\* create_table(engine, t, columns): create_all skips a table that exists;
\* a column spec has no way to ask for a uniqueness constraint
CreateTable(p, t) ==
    /\ pc[p] = "idle"
    /\ tables' = tables \cup {t}
    /\ unique' = IF t = EntityTable /\ t \notin tables THEN FALSE ELSE unique
    /\ ret' = [ret EXCEPT ![p] = Returned("create_table", t, TRUE, NoId)]
    /\ UNCHANGED <<rows, clock, pc, crit, models>>

\* drop_table that first checks that the table is there
DropTableCheckFirst(p, t) ==
    /\ pc[p] = "idle"
    /\ tables' = tables \ {t}
    /\ rows' = IF t = EntityTable THEN {} ELSE rows
    /\ ret' = [ret EXCEPT ![p] = Returned("drop_table", t, FALSE, NoId)]
    /\ UNCHANGED <<unique, clock, pc, crit, models>>

\* drop_table(engine, t): Table.drop emits DROP TABLE unconditionally
DropTable(p, t) ==
    /\ pc[p] = "idle"
    /\ IF t \in tables
       THEN /\ tables' = tables \ {t}
            /\ rows' = IF t = EntityTable THEN {} ELSE rows
            /\ ret' = [ret EXCEPT ![p] = Returned("drop_table", t, FALSE, NoId)]
       ELSE /\ ret' = [ret EXCEPT ![p] = Raised("drop_table", t, "ProgrammingError")]
            /\ UNCHANGED <<tables, rows>>
    /\ UNCHANGED <<unique, clock, pc, crit, models>>

\* get_table(engine, t): Table(..., autoload_with=engine)
GetTable(p, t) ==
    /\ pc[p] = "idle"
    /\ IF t \in tables
       THEN ret' = [ret EXCEPT ![p] = Returned("get_table", t, TRUE, NoId)]
       ELSE ret' = [ret EXCEPT ![p] = Raised("get_table", t, "NoSuchTableError")]
    /\ UNCHANGED <<tables, unique, rows, clock, pc, crit, models>>

\* time passes
Tick ==
    /\ clock < MaxClock
    /\ clock' = clock + 1
    /\ UNCHANGED <<tables, unique, rows, pc, crit, ret, models>>

\* One session, its calls one after another.
Next ==
    \/ \E c \in Names : GetOrCreate(MainCaller, c)
    \/ \E c \in Names : Get(MainCaller, c)
    \/ \E c \in Names, i \in {NoId} \cup Ids : SaveNew(MainCaller, c, i)
    \/ \E c \in Names, i \in Ids : SaveLoaded(MainCaller, i, c)
    \/ \E t \in TableNames : CreateTable(MainCaller, t)
    \/ \E t \in TableNames : DropTable(MainCaller, t)
    \/ \E t \in TableNames : GetTable(MainCaller, t)
    \/ \E t \in TableNames : ValidateTableExists(MainCaller, t)
    \/ \E df \in Frames : ValidateData(MainCaller, df)
    \/ Tick

Spec == Init /\ [][Next]_vars

\* Two sessions, interleaved between the statements of get_or_create.
NextConc ==
    \/ \E p \in Callers, c \in Names : GocQuery(p, c)
    \/ \E p \in Callers : GocInsert(p)
    \/ \E p \in Callers, c \in Names, i \in Ids : SaveLoaded(p, i, c)
    \/ \E p \in Callers, t \in {EntityTable} : CreateTable(p, t)
    \/ \E p \in Callers, t \in {EntityTable} : DropTable(p, t)

SpecConc == Init /\ [][NextConc]_vars

\* ------------------------------------------------------------------------
\* Entity types (class creation evaluates __tablename__)
\* ------------------------------------------------------------------------
\* A class is declared once; the slots fill in order.
DeclareModel(s, n) ==
    /\ models[s] = NoModel
    /\ s = "second" => models["first"] # NoModel
    /\ models' = [models EXCEPT ![s] = [name |-> n, table |-> Derive(n)]]
    /\ UNCHANGED dbVars

NextNames == \E s \in Slots, n \in TypeNames : DeclareModel(s, n)

SpecNames == Init /\ [][NextNames]_vars
\* ------------------------------------------------------------------------
\* Properties
\* ------------------------------------------------------------------------
RowsNamed(rs, c) == {r \in rs : r.name = c}
IdsOf(rs) == {r.id : r \in rs}
IdsAreKeys(rs) == \A r1, r2 \in rs : r1.id = r2.id => r1 = r2
Done(p) == ret[p].outcome = "returned"

C2_SaveRefreshesUpdatedAt ==
    [][\A i \in Ids, c \in Names :
         (SaveLoaded(MainCaller, i, c) /\ ret'[MainCaller].outcome = "returned") =>
           LET old == RowOf(i)
               new == CHOOSE r \in rows' : r.id = i
           IN /\ new.updated_at > new.created_at
              /\ new.created_at = old.created_at]_vars

\* the step is a save, of a new instance or of a loaded one, that returned
SaveReturned(c, i) ==
    /\ SaveNew(MainCaller, c, i) \/ (i # NoId /\ SaveLoaded(MainCaller, i, c))
    /\ ret'[MainCaller].outcome = "returned"

\* C3 as stated: a save with id None adds exactly one row and returns a
\* non-null id; a save with the id set changes the row in place, keeps the
\* id and adds no row; no two stored rows share an id.
C3_SaveByIdAsStated ==
    [][\A c \in Names, i \in {NoId} \cup Ids :
         SaveReturned(c, i) =>
           /\ i = NoId =>
                /\ ret'[MainCaller].id # NoId
                /\ Cardinality(rows') = Cardinality(rows) + 1
                /\ rows \subseteq rows'
           /\ i # NoId =>
                /\ ret'[MainCaller].id = i
                /\ IdsOf(rows') = IdsOf(rows)
           /\ IdsAreKeys(rows')]_vars

\* C3 amended: a save of an instance the session has not stored yet adds
\* exactly one row, under a fresh non-null id when its id is None and under
\* the caller's id otherwise; a save of an instance loaded from a stored row
\* changes that row in place, keeps its id and adds no row; a save that
\* raises stores nothing; no two stored rows share an id.
C3_SaveInsertsOrUpdates ==
    [][\A c \in Names, i \in {NoId} \cup Ids :
         /\ (SaveNew(MainCaller, c, i) /\ ret'[MainCaller].outcome = "returned") =>
              /\ ret'[MainCaller].id # NoId
              /\ i # NoId => ret'[MainCaller].id = i
              /\ ret'[MainCaller].id \notin IdsOf(rows)
              /\ rows \subseteq rows'
              /\ IdsOf(rows') = IdsOf(rows) \cup {ret'[MainCaller].id}
         /\ (i # NoId /\ SaveLoaded(MainCaller, i, c)
                /\ ret'[MainCaller].outcome = "returned") =>
              /\ ret'[MainCaller].id = i
              /\ IdsOf(rows') = IdsOf(rows)
              /\ \A r \in rows : r.id # i => r \in rows'
         /\ ((SaveNew(MainCaller, c, i) \/ (i # NoId /\ SaveLoaded(MainCaller, i, c)))
                /\ ret'[MainCaller].outcome = "raised") => rows' = rows
         /\ IdsAreKeys(rows')]_vars

C3_Witness ==
    /\ ret[MainCaller].op = "save"
    /\ Done(MainCaller)
    /\ ~ret[MainCaller].persistent
    /\ ret[MainCaller].given # NoId
    /\ ret[MainCaller].id \in RowIds
    /\ Cardinality(rows) = 2

\* C4: with the uniqueness constraint on the criteria column, at most one
\* row matches any criteria, whatever the interleaving; without it the two
\* callers can both insert (C4_Witness).
C4_UniqueConstraintPreventsDuplicates ==
    unique => \A c \in Names : Cardinality(Matching(c)) <= 1

C4_Witness ==
    /\ ~unique
    /\ \E c \in Names :
         /\ \A p \in Callers :
              /\ ret[p].op = "get_or_create"
              /\ ret[p].arg = c
              /\ Done(p)
              /\ ret[p].flag
         /\ ret["c1"].id # ret["c2"].id
         /\ Cardinality(Matching(c)) = 2

\* C5: validate_table_exists(engine, t) returns whether t is among the
\* tables: TRUE right after create_table(t), FALSE after drop_table(t).
C5_TableExistsTracksCreateDrop ==
    ret[MainCaller].op = "validate_table_exists" =>
        /\ Done(MainCaller)
        /\ ret[MainCaller].flag = (ret[MainCaller].arg \in tables)

\* a CamelCase name: an uppercase letter first, then letters and digits
IsCamelCase(n) ==
    /\ Len(n) >= 1
    /\ n[1] \in UpperChars
    /\ \A k \in 1..Len(n) : n[k] # "_"

Declared == {s \in Slots : models[s] # NoModel}

\* C6: deriving the table name of a derived table name changes nothing, and
\* the table name of a CamelCase type name has no uppercase character and
\* no leading underscore.
C6_DerivationIdempotent ==
    \A s \in Declared :
        /\ Derive(models[s].table) = models[s].table
        /\ IsCamelCase(models[s].name) =>
             /\ \A k \in 1..Len(models[s].table) : models[s].table[k] \notin UpperChars
             /\ models[s].table[1] # "_"

C6_Witness ==
    \E s \in Declared :
        /\ IsCamelCase(models[s].name)
        /\ \E k \in 1..Len(models[s].table) : models[s].table[k] = "_"

\* C7 as stated: two entity types with different names have different
\* table names.
C7_DerivationInjective ==
    \A s1, s2 \in Declared :
        models[s1].name # models[s2].name => models[s1].table # models[s2].table

\* a name lower-cased, its underscores removed
RECURSIVE Fold(_)
Fold(n) ==
    IF n = <<>> THEN <<>>
    ELSE IF n[1] = "_" THEN Fold(Tail(n))
    ELSE <<ToLower(n[1])>> \o Fold(Tail(n))

\* C7 amended: two entity types whose names still differ once lower-cased
\* and stripped of underscores have different table names.
C7_DerivationInjectiveUpToCase ==
    \A s1, s2 \in Declared :
        Fold(models[s1].name) # Fold(models[s2].name) =>
            models[s1].table # models[s2].table

C7_Witness ==
    /\ Declared = Slots
    /\ Fold(models["first"].name) # Fold(models["second"].name)
    /\ \A s \in Slots : \E k \in 1..Len(models[s].table) :
           models[s].table[k] = "_" /\ models[s].name[k] # "_"

\* C8: validate_data never lets an exception through: it returns one entity
\* per row when every row is valid, and otherwise the ValidationError of
\* the first invalid row.
C8_ValidateReturnsValueOrError ==
    ret[MainCaller].op = "validate_data" =>
        /\ Done(MainCaller)
        /\ FirstInvalid(ret[MainCaller].df) = 0 =>
             /\ ret[MainCaller].exc = "-"
             /\ ret[MainCaller].id = Len(ret[MainCaller].df)
        /\ FirstInvalid(ret[MainCaller].df) # 0 =>
             /\ ret[MainCaller].exc = "ValidationError"
             /\ ret[MainCaller].id = FirstInvalid(ret[MainCaller].df)

C10_AbsentTableNotFoundError ==
    [][\A t \in TableNames :
         ((DropTable(MainCaller, t) \/ GetTable(MainCaller, t)) /\ t \notin tables) =>
           /\ ret'[MainCaller].outcome = "raised"
           /\ ret'[MainCaller].exc = "NotFoundError"
           /\ tables' = tables]_vars

\* C10 amended: on an absent table drop_table raises the engine's
\* ProgrammingError and get_table raises NoSuchTableError; both leave the
\* tables and the rows as they were.
C10_AbsentTableRaises ==
    [][\A t \in TableNames :
         /\ (DropTable(MainCaller, t) /\ t \notin tables) =>
              /\ ret'[MainCaller].outcome = "raised"
              /\ ret'[MainCaller].exc = "ProgrammingError"
              /\ tables' = tables /\ rows' = rows
         /\ (GetTable(MainCaller, t) /\ t \notin tables) =>
              /\ ret'[MainCaller].outcome = "raised"
              /\ ret'[MainCaller].exc = "NoSuchTableError"
              /\ tables' = tables /\ rows' = rows]_vars

C10_Witness ==
    /\ ret[MainCaller].op = "drop_table"
    /\ ret[MainCaller].outcome = "raised"
    /\ ret[MainCaller].arg \notin tables
====
